---- MODULE Spec2Model ----
(***************************************************************************)
(* Event management API (Django + Django REST Framework).                  *)
(*                                                                         *)
(* The state is the relational database (users, venues, events, bookings, *)
(* payments, reviews and the AutoField sequences), the client's session,   *)
(* the requests that are between is_valid() and save(), and the last       *)
(* response sent.  Every view of events/views.py is one action; the URL    *)
(* configuration of eventMngt/urls.py decides which view a path reaches.   *)
(*                                                                         *)
(* A request body is a record that holds exactly the fields the client     *)
(* sent: a field is absent when it is not in DOMAIN body.  NULL is 0,      *)
(* which no AutoField value takes.                                         *)
(***************************************************************************)
EXTENDS Integers, Sequences, FiniteSets, TLC

VARIABLES users, venues, events, bookings, payments, reviews,
          seq, session, inflight, resp

vars == <<users, venues, events, bookings, payments, reviews,
          seq, session, inflight, resp>>

db == <<users, venues, events, bookings, payments, reviews>>

(***************************************************************************)
(* Bounds of the model.                                                    *)
(***************************************************************************)
MaxUsers == 2
MaxEvents == 2
MaxBookings == 2
MaxVenues == 2
MaxWorkers == 2

Null == 0
Anonymous == 0

HTTP_200_OK == 200
HTTP_201_CREATED == 201
HTTP_204_NO_CONTENT == 204
HTTP_400_BAD_REQUEST == 400
HTTP_404_NOT_FOUND == 404
HTTP_500_INTERNAL_SERVER_ERROR == 500

Has(body, f) == f \in DOMAIN body

(***************************************************************************)
(* User: choices, e-mail addresses, password hashing.                      *)
(***************************************************************************)
ROLE_CHOICES == {"admin", "organizer", "customer"}

USER_STATUS_CHOICES == {"active", "suspended"}

\* str.lower() on the domain parts the model uses.
lower(s) == CASE s = "X.com" -> "x.com"
              [] s = "B.Org" -> "b.org"
              [] OTHER -> s

\* str.capitalize() on the role codes.
capitalize(s) == CASE s = "admin" -> "Admin"
                   [] s = "organizer" -> "Organizer"
                   [] s = "customer" -> "Customer"
                   [] OTHER -> s

\* An address is local@domain; EmailField accepts it when both parts are there.
IsEmail(e) == e.local # "" /\ e.domain # ""

\* BaseUserManager.normalize_email: the domain part is lower-cased, the
\* local part is kept as submitted.
normalize_email(email) == [email EXCEPT !.domain = lower(@)]

\* set_password: a salted hash; the digest is a function of salt and password.
make_password(password, salt) ==
    [algorithm |-> "pbkdf2_sha256", salt |-> salt, hash |-> <<salt, password>>]

check_password(raw, encoded) == make_password(raw, encoded.salt) = encoded

Salts == {"s1"}

UserIds == {u.user_id : u \in users}

UserById(id) == CHOOSE u \in users : u.user_id = id

\* request.user: the session's user, read from the database on every
\* request; AnonymousUser when the session holds none.
request_user == IF session \in UserIds THEN session ELSE Anonymous

\* serializer.errors of a serializer whose data is valid.
NoErrors == [non_field_errors |-> <<>>]

NoResponse == [op |-> "none", status |-> 0, req |-> <<>>, data |-> <<>>]

Response(op, status, req, data) ==
    [op |-> op, status |-> status, req |-> req, data |-> data]

(***************************************************************************)
(* RegisterSerializer and register_view.                                   *)
(***************************************************************************)
\* UniqueValidator on User.email: an exact lookup of the value as submitted.
EmailIsUnique(email) == ~ \E u \in users : u.email = email

\* RegisterSerializer.is_valid(): the four fields are required, role is a
\* choice, email is an address no stored user has.
RegisterSerializer_is_valid(data) ==
    /\ Has(data, "name") /\ data.name # ""
    /\ Has(data, "email") /\ IsEmail(data.email) /\ EmailIsUnique(data.email)
    /\ Has(data, "password") /\ data.password # ""
    /\ Has(data, "role") /\ data.role \in ROLE_CHOICES

\* The messages RegisterSerializer reports for field f: a missing or blank
\* field, an address that is none or is taken, a role that is no choice
\* (the one message that quotes the input).
RegisterFieldErrors(data, f) ==
    IF ~ Has(data, f) THEN <<"This field is required.">>
    ELSE CASE f = "email" ->
                IF ~ IsEmail(data.email) THEN <<"Enter a valid email address.">>
                ELSE IF ~ EmailIsUnique(data.email)
                     THEN <<"user with this email already exists.">>
                     ELSE <<>>
           [] f = "role" ->
                IF data.role \in ROLE_CHOICES THEN <<>>
                ELSE <<data.role, "is not a valid choice.">>
           [] OTHER ->
                IF data[f] = "" THEN <<"This field may not be blank.">> ELSE <<>>

\* serializer.errors: the fields in error, each with its messages.
RegisterSerializer_errors(data) ==
    LET bad == {f \in {"name", "email", "password", "role"} :
                  RegisterFieldErrors(data, f) # <<>>}
    IN  [f \in bad |-> RegisterFieldErrors(data, f)]

\* UserManager.create_user: the row that user.save() inserts.
create_user(id, email, name, password, role, salt) ==
    [user_id |-> id, name |-> name, email |-> normalize_email(email),
     password |-> make_password(password, salt), role |-> role,
     status |-> "active", is_active |-> TRUE]

\* The unique index on events_user.email.
UserInsertAllowed(row) == ~ \E u \in users : u.email = row.email

\* The whole row in the place of the hand-picked fields.
PublicUser_all_fields(u) == u

\* The "user" object register_view and login_view build.
PublicUser(u) ==
    [id |-> u.user_id, name |-> u.name, email |-> u.email, role |-> u.role]

register_view(data, salt) ==
    /\ RegisterSerializer_is_valid(data) => seq.user <= MaxUsers
    /\ IF RegisterSerializer_is_valid(data)
       THEN LET row == create_user(seq.user, data.email, data.name,
                                   data.password, data.role, salt)
            IN  /\ seq' = [seq EXCEPT !.user = @ + 1]
                /\ IF UserInsertAllowed(row)
                   THEN /\ users' = users \cup {row}
                        /\ resp' = Response("register", HTTP_201_CREATED, data,
                                     [message |-> <<capitalize(row.role),
                                                    "registered successfully!">>,
                                      user |-> PublicUser(row)])
                   ELSE \* IntegrityError, which the view does not catch
                        /\ users' = users
                        /\ resp' = Response("register",
                                     HTTP_500_INTERNAL_SERVER_ERROR, data,
                                     "IntegrityError")
       ELSE /\ resp' = Response("register", HTTP_400_BAD_REQUEST, data,
                                RegisterSerializer_errors(data))
            /\ UNCHANGED <<users, seq>>
    /\ UNCHANGED <<venues, events, bookings, payments, reviews, session, inflight>>

(***************************************************************************)
(* LoginSerializer, login_view, logout_view.                               *)
(***************************************************************************)
\* django.contrib.auth.authenticate with the default ModelBackend: the user
\* whose email is the one submitted, if the password checks and the user
\* is_active; Anonymous (None) otherwise.
authenticate(email, password) ==
    IF \E u \in users : /\ u.email = email
                        /\ check_password(password, u.password)
                        /\ u.is_active
    THEN (CHOOSE u \in users : u.email = email).user_id
    ELSE Anonymous

LoginSerializer_errors_without_status(data) ==
    IF ~ (/\ Has(data, "email") /\ IsEmail(data.email)
          /\ Has(data, "password") /\ data.password # "")
    THEN [fields |-> <<"This field is required.">>]
    ELSE IF authenticate(data.email, data.password) = Anonymous
         THEN [non_field_errors |-> <<"Invalid email or password">>]
         ELSE NoErrors

\* LoginSerializer.is_valid(): the field checks, then validate().
LoginSerializer_errors(data) ==
    IF ~ (/\ Has(data, "email") /\ IsEmail(data.email)
          /\ Has(data, "password") /\ data.password # "")
    THEN [fields |-> <<"This field is required.">>]
    ELSE LET user == authenticate(data.email, data.password)
         IN  IF user = Anonymous
             THEN [non_field_errors |-> <<"Invalid email or password">>]
             ELSE IF UserById(user).status # "active"
                  THEN [non_field_errors |-> <<"Your account is suspended">>]
                  ELSE NoErrors

login_view(data) ==
    /\ LET errors == LoginSerializer_errors(data)
       IN  IF errors = NoErrors
           THEN LET user == UserById(authenticate(data.email, data.password))
                IN  /\ session' = user.user_id
                    /\ resp' = Response("login", HTTP_200_OK, data,
                                 [message |-> <<capitalize(user.role),
                                                "logged in successfully!">>,
                                  user |-> PublicUser(user)])
           ELSE /\ session' = session
                /\ resp' = Response("login", HTTP_400_BAD_REQUEST, data, errors)
    /\ UNCHANGED <<users, venues, events, bookings, payments, reviews, seq, inflight>>

\* logout_view behind a check that the caller is logged in.
logout_view_requires_session ==
    /\ IF session = Anonymous
       THEN /\ session' = session
            /\ resp' = Response("logout", HTTP_400_BAD_REQUEST, <<>>,
                                [message |-> "Not logged in"])
       ELSE /\ session' = Anonymous
            /\ resp' = Response("logout", HTTP_200_OK, <<>>,
                                [message |-> "Logged out successfully"])
    /\ UNCHANGED <<users, venues, events, bookings, payments, reviews, seq, inflight>>

logout_view ==
    /\ session' = Anonymous
    /\ resp' = Response("logout", HTTP_200_OK, <<>>,
                        [message |-> "Logged out successfully"])
    /\ UNCHANGED <<users, venues, events, bookings, payments, reviews, seq, inflight>>

\* The admin site (UserAdmin): a staff member edits a user's status.
UserAdmin_set_status(id, status) ==
    /\ id \in UserIds
    /\ status \in USER_STATUS_CHOICES
    /\ UserById(id).status # status
    /\ users' = {IF u.user_id = id THEN [u EXCEPT !.status = status] ELSE u
                 : u \in users}
    /\ UNCHANGED <<venues, events, bookings, payments, reviews, seq, session,
                   inflight, resp>>

(***************************************************************************)
(* URL configuration (eventMngt/urls.py).  A path is a sequence of         *)
(* segments, [lit |-> s] or [int |-> n]; a route is a sequence of literal  *)
(* segments and <int:name> converters.                                     *)
(***************************************************************************)
Lit(s) == [lit |-> s]

IntSeg(n) == [int |-> n]

IntConv(name) == [conv |-> "int", name |-> name]

Route(route, view) == [route |-> route, view |-> view]

urlpatterns ==
    << Route(<<Lit("api"), Lit("register")>>, "register_view"),
       Route(<<Lit("api"), Lit("login")>>, "login_view"),
       Route(<<Lit("api"), Lit("logout")>>, "logout_view"),
       Route(<<Lit("events")>>, "get_events"),
       Route(<<Lit("events"), Lit("my")>>, "get_my_events"),
       Route(<<Lit("events"), IntConv("pk")>>, "get_events"),
       Route(<<Lit("events"), Lit("create")>>, "create_event"),
       Route(<<Lit("events"), Lit("update"), IntConv("pk")>>, "update_event"),
       Route(<<Lit("events"), Lit("partial"), IntConv("pk")>>, "partial_update_event"),
       Route(<<Lit("events"), Lit("delete"), IntConv("pk")>>, "delete_event"),
       Route(<<Lit("venues")>>, "get_venues"),
       Route(<<Lit("venues"), Lit("create")>>, "create_venue"),
       Route(<<Lit("venues"), Lit("partial"), IntConv("pk")>>, "partial_update_venue"),
       Route(<<Lit("venues"), Lit("delete"), IntConv("pk")>>, "delete_venue"),
       Route(<<Lit("bookings")>>, "get_all_bookings"),
       Route(<<Lit("bookings"), Lit("create")>>, "create_booking"),
       Route(<<Lit("bookings"), Lit("cancel"), IntConv("booking_id")>>, "cancel_booking") >>

SegmentMatches(pattern, segment) ==
    IF Has(pattern, "lit")
    THEN Has(segment, "lit") /\ segment.lit = pattern.lit
    ELSE Has(segment, "int")

RouteMatches(route, path) ==
    /\ Len(route) = Len(path)
    /\ \A i \in 1..Len(route) : SegmentMatches(route[i], path[i])

\* The keyword arguments the converters of a matching route capture.
RouteKwargs(route, path) ==
    {<<route[i].name, path[i].int>> : i \in {j \in 1..Len(route) : Has(route[j], "conv")}}

\* django.urls.resolve: the first pattern that matches, in the order written.
resolve(path) ==
    LET matching == {k \in 1..Len(urlpatterns) :
                       RouteMatches(urlpatterns[k].route, path)}
    IN  IF matching = {}
        THEN [view |-> "Resolver404", kwargs |-> {}]
        ELSE LET i == CHOOSE k \in matching : \A j \in matching : k <= j
             IN  [view |-> urlpatterns[i].view,
                  kwargs |-> RouteKwargs(urlpatterns[i].route, path)]

\* The paths the requests of this module use, and the view each resolves
\* to (resolve, tabulated once).
RequestPaths ==
    {<<Lit("events")>>, <<Lit("venues")>>, <<Lit("bookings")>>,
     <<Lit("events"), Lit("create")>>, <<Lit("venues"), Lit("create")>>,
     <<Lit("bookings"), Lit("create")>>}
    \cup {<<Lit("events"), IntSeg(pk)>> : pk \in 1..(MaxEvents + 1)}
    \cup {<<Lit(a), Lit(b), IntSeg(pk)>> :
             a \in {"events", "venues"}, b \in {"update", "partial", "delete"},
             pk \in 1..(MaxEvents + MaxVenues + 1)}

resolver == [path \in RequestPaths |-> resolve(path)]

(***************************************************************************)
(* Venue, VenueSerializer and the venue views.                             *)
(***************************************************************************)
VENUE_CHOICES == {"pc", "falettis", "alhamra", "expo", "royalpalm"}

VenueFields == {"name", "address", "capacity"}

VenueIds == {v.venue_id : v \in venues}

VenueById(id) == CHOOSE v \in venues : v.venue_id = id

VenueFieldValid(f, v) ==
    CASE f = "name" -> v \in VENUE_CHOICES
      [] f = "address" -> v # ""
      [] f = "capacity" -> v >= 0

\* VenueSerializer.is_valid(): every field sent is valid; all three are
\* required unless partial.
VenueSerializer_is_valid(data, partial) ==
    /\ \A f \in DOMAIN data \cap VenueFields : VenueFieldValid(f, data[f])
    /\ ~ partial => VenueFields \subseteq DOMAIN data

\* ModelSerializer.update: the fields sent replace the stored ones.
Updated(instance, data, fields) ==
    [f \in DOMAIN instance |->
        IF f \in DOMAIN data \cap fields THEN data[f] ELSE instance[f]]

create_venue(data) ==
    /\ resolver[<<Lit("venues"), Lit("create")>>].view = "create_venue"
    /\ VenueSerializer_is_valid(data, FALSE) => seq.venue <= MaxVenues
    /\ IF VenueSerializer_is_valid(data, FALSE)
       THEN LET row == [venue_id |-> seq.venue, name |-> data.name,
                        address |-> data.address, capacity |-> data.capacity]
            IN  /\ venues' = venues \cup {row}
                /\ seq' = [seq EXCEPT !.venue = @ + 1]
                /\ resp' = Response("create_venue", HTTP_201_CREATED, data, row)
       ELSE /\ resp' = Response("create_venue", HTTP_400_BAD_REQUEST, data,
                                [fields |-> <<"validation errors">>])
            /\ UNCHANGED <<venues, seq>>
    /\ UNCHANGED <<users, events, bookings, payments, reviews, session, inflight>>

get_venues ==
    /\ resolver[<<Lit("venues")>>].view = "get_venues"
    /\ resp' = Response("get_venues", HTTP_200_OK, <<>>, venues)
    /\ UNCHANGED <<users, venues, events, bookings, payments, reviews, seq,
                   session, inflight>>

\* partial_update_venue saving the fields that are valid before it reports
\* the ones that are not.
partial_update_venue_saves_valid_fields(pk, data) ==
    /\ resolver[<<Lit("venues"), Lit("partial"), IntSeg(pk)>>].view = "partial_update_venue"
    /\ IF pk \notin VenueIds
       THEN /\ resp' = Response("partial_update_venue", HTTP_404_NOT_FOUND,
                                data, [error |-> "Venue not found"])
            /\ venues' = venues
       ELSE LET valid == {f \in DOMAIN data \cap VenueFields :
                            VenueFieldValid(f, data[f])}
                row == Updated(VenueById(pk), data, valid)
            IN  /\ venues' = (venues \ {VenueById(pk)}) \cup {row}
                /\ resp' = IF VenueSerializer_is_valid(data, TRUE)
                           THEN Response("partial_update_venue", HTTP_200_OK,
                                         data, row)
                           ELSE Response("partial_update_venue",
                                         HTTP_400_BAD_REQUEST, data,
                                         [fields |-> <<"validation errors">>])
    /\ UNCHANGED <<users, events, bookings, payments, reviews, seq, session, inflight>>

partial_update_venue(pk, data) ==
    /\ resolver[<<Lit("venues"), Lit("partial"), IntSeg(pk)>>].view = "partial_update_venue"
    /\ IF pk \notin VenueIds
       THEN /\ resp' = Response("partial_update_venue", HTTP_404_NOT_FOUND,
                                data, [error |-> "Venue not found"])
            /\ venues' = venues
       ELSE IF VenueSerializer_is_valid(data, TRUE)
            THEN LET row == Updated(VenueById(pk), data, VenueFields)
                 IN  /\ venues' = (venues \ {VenueById(pk)}) \cup {row}
                     /\ resp' = Response("partial_update_venue", HTTP_200_OK,
                                         data, row)
            ELSE /\ resp' = Response("partial_update_venue",
                                     HTTP_400_BAD_REQUEST, data,
                                     [fields |-> <<"validation errors">>])
                 /\ venues' = venues
    /\ UNCHANGED <<users, events, bookings, payments, reviews, seq, session, inflight>>

\* on_delete=CASCADE in the place of SET_NULL.
CascadeVenue(pk) == {e \in events : e.venue # pk}

\* Event.venue is on_delete=SET_NULL: the events of a deleted venue stay,
\* with venue NULL.
SetNullVenue(pk) ==
    {IF e.venue = pk THEN [e EXCEPT !.venue = Null] ELSE e : e \in events}

delete_venue(pk) ==
    /\ resolver[<<Lit("venues"), Lit("delete"), IntSeg(pk)>>].view = "delete_venue"
    /\ IF pk \notin VenueIds
       THEN /\ resp' = Response("delete_venue", HTTP_404_NOT_FOUND, pk,
                                [error |-> "Venue not found"])
            /\ UNCHANGED <<venues, events>>
       ELSE /\ venues' = venues \ {VenueById(pk)}
            /\ events' = SetNullVenue(pk)
            /\ resp' = Response("delete_venue", HTTP_204_NO_CONTENT, pk,
                                [message |-> "Venue deleted successfully"])
    /\ UNCHANGED <<users, bookings, payments, reviews, seq, session, inflight>>

(***************************************************************************)
(* Event, EventSerializer and the event views.                             *)
(***************************************************************************)
EVENT_STATUS_CHOICES == {"upcoming", "ongoing", "completed", "cancelled"}

CATEGORY_CHOICES == {"music", "sports", "education", "technology", "business"}

\* The writable fields of EventSerializer (fields = '__all__' less the
\* AutoField and the auto timestamps).
EventFields == {"title", "description", "organizer", "category", "venue",
                "start_date", "start_time", "end_date", "end_time",
                "ticket_price", "capacity", "status"}

\* Every writable field taken as required.
EventRequired_all_fields == EventFields

\* The fields with neither a default nor null=True.
EventRequired == EventFields \ {"venue", "ticket_price", "status"}

EventIds == {e.event_id : e \in events}

EventById(id) == CHOOSE e \in events : e.event_id = id

\* Dates and times are day and minute numbers from 1; 0 stands for a
\* string that is no date.  ticket_price is a decimal of at most ten
\* digits, two of them after the point.
EventFieldValid(f, v) ==
    CASE f = "title" -> v # ""
      [] f = "description" -> v # ""
      [] f = "organizer" -> v \in UserIds
      [] f = "category" -> v \in CATEGORY_CHOICES
      [] f = "venue" -> v = Null \/ v \in VenueIds
      [] f \in {"start_date", "start_time", "end_date", "end_time"} -> v >= 1
      [] f = "ticket_price" -> /\ v.whole > -100000000 /\ v.whole < 100000000
                               /\ v.cents \in 0..99
      [] f = "capacity" -> v >= 0
      [] f = "status" -> v \in EVENT_STATUS_CHOICES

\* The value a unique_together field takes in the check: the one sent, or
\* on an update the instance's.
AttrOrInstance(instance, data, f) ==
    IF Has(data, f) THEN data[f] ELSE instance[f]

\* The validator run only on the fields the request sent: an update that
\* sends one field of the pair is not checked.
EventUniqueTogether_sent_fields_only(instance, data) ==
    IF {"title", "start_date"} \subseteq DOMAIN data
    THEN ~ \E e \in events : /\ e.event_id # instance
                              /\ e.title = data.title
                              /\ e.start_date = data.start_date
    ELSE TRUE

\* UniqueTogetherValidator(title, start_date): no other event has the pair.
EventUniqueTogether(instance, data) ==
    IF instance = Null
    THEN ~ \E e \in events : e.title = data.title /\ e.start_date = data.start_date
    ELSE LET title == AttrOrInstance(EventById(instance), data, "title")
             start_date == AttrOrInstance(EventById(instance), data, "start_date")
         IN  ~ \E e \in events : /\ e.event_id # instance
                                 /\ e.title = title /\ e.start_date = start_date

\* EventSerializer.is_valid(): every field sent is valid, the required
\* fields are there unless partial, and (title, start_date) stays unique.
\* instance is Null for a create and the event's id for an update.
EventSerializer_is_valid(instance, data, partial) ==
    /\ \A f \in DOMAIN data \cap EventFields : EventFieldValid(f, data[f])
    /\ ~ partial => EventRequired \subseteq DOMAIN data
    /\ ({"title", "start_date"} \subseteq DOMAIN data \/ instance # Null)
    /\ EventUniqueTogether(instance, data)

\* Event(**validated_data): the model defaults fill what was not sent.
NewEvent(id, data) ==
    Updated([event_id |-> id, title |-> "", description |-> "",
             organizer |-> Null, category |-> "", venue |-> Null,
             start_date |-> 0, start_time |-> 0, end_date |-> 0,
             end_time |-> 0, ticket_price |-> [whole |-> 0, cents |-> 0],
             capacity |-> 0,
             status |-> "upcoming"], data, EventFields)

ValidationErrors == [fields |-> <<"validation errors">>]

create_event(data) ==
    /\ resolver[<<Lit("events"), Lit("create")>>].view = "create_event"
    /\ EventSerializer_is_valid(Null, data, FALSE) => seq.event <= MaxEvents
    /\ IF EventSerializer_is_valid(Null, data, FALSE)
       THEN LET row == NewEvent(seq.event, data)
            IN  /\ events' = events \cup {row}
                /\ seq' = [seq EXCEPT !.event = @ + 1]
                /\ resp' = Response("create_event", HTTP_201_CREATED, data, row)
       ELSE /\ resp' = Response("create_event", HTTP_400_BAD_REQUEST, data,
                                ValidationErrors)
            /\ UNCHANGED <<events, seq>>
    /\ UNCHANGED <<users, venues, bookings, payments, reviews, session, inflight>>

\* Meta.ordering = ['-start_date'].
EventOrdered_by_start_date_only(list) ==
    \A i \in 1..(Len(list) - 1) : list[i].start_date >= list[i + 1].start_date

\* Meta.ordering = ['-start_date', '-start_time'].
EventOrdered(list) ==
    \A i \in 1..(Len(list) - 1) :
        \/ list[i].start_date > list[i + 1].start_date
        \/ /\ list[i].start_date = list[i + 1].start_date
           /\ list[i].start_time >= list[i + 1].start_time

\* Event.objects.all(): the sequences the query may return, every event
\* once; rows that tie on the ordering come in either order.
EventQuerysets ==
    {list \in [1..Cardinality(events) -> events] :
        /\ \A e \in events : \E i \in DOMAIN list : list[i] = e
        /\ EventOrdered(list)}

\* The response of get_events(request) called with the captured kwargs:
\* the view takes no pk, so a captured pk is a TypeError.
get_events(kwargs, list) ==
    IF kwargs = {}
    THEN Response("get_events", HTTP_200_OK, kwargs, list)
    ELSE Response("get_events", HTTP_500_INTERNAL_SERVER_ERROR, kwargs, "TypeError")

\* The response of get_event(request, pk).
get_event(pk) ==
    IF pk \in EventIds
    THEN Response("get_event", HTTP_200_OK, {<<"pk", pk>>}, EventById(pk))
    ELSE Response("get_event", HTTP_404_NOT_FOUND, {<<"pk", pk>>},
                  [error |-> "Event not found"])

KwargsPk(kwargs) == (CHOOSE kv \in kwargs : kv[1] = "pk")[2]

\* GET on a path under events/: the view the URL configuration names is
\* called with the kwargs it captured.
get_request(path) ==
    /\ LET match == resolver[path]
       IN  \E list \in EventQuerysets :
             resp' = CASE match.view = "get_events" -> get_events(match.kwargs, list)
                       [] match.view = "get_event" -> get_event(KwargsPk(match.kwargs))
                       [] OTHER -> Response("Resolver404", HTTP_404_NOT_FOUND,
                                            match.kwargs, "Not Found")
    /\ UNCHANGED <<users, venues, events, bookings, payments, reviews, seq,
                   session, inflight>>

\* EventUpdate with the failed lookup reported as a validation error.
EventUpdate_not_found_as_invalid(op, pk, data, partial) ==
    IF pk \notin EventIds
    THEN /\ resp' = Response(op, HTTP_400_BAD_REQUEST, [pk |-> pk, data |-> data],
                             ValidationErrors)
         /\ events' = events
    ELSE IF EventSerializer_is_valid(pk, data, partial)
         THEN LET row == Updated(EventById(pk), data, EventFields)
              IN  /\ events' = (events \ {EventById(pk)}) \cup {row}
                  /\ resp' = Response(op, HTTP_200_OK,
                                      [pk |-> pk, data |-> data], row)
         ELSE /\ resp' = Response(op, HTTP_400_BAD_REQUEST,
                                  [pk |-> pk, data |-> data], ValidationErrors)
              /\ events' = events

\* update_event (PUT) and partial_update_event (PATCH) after the lookup.
EventUpdate(op, pk, data, partial) ==
    IF pk \notin EventIds
    THEN /\ resp' = Response(op, HTTP_404_NOT_FOUND, [pk |-> pk, data |-> data],
                             [error |-> "Event not found"])
         /\ events' = events
    ELSE IF EventSerializer_is_valid(pk, data, partial)
         THEN LET row == Updated(EventById(pk), data, EventFields)
              IN  /\ events' = (events \ {EventById(pk)}) \cup {row}
                  /\ resp' = Response(op, HTTP_200_OK,
                                      [pk |-> pk, data |-> data], row)
         ELSE /\ resp' = Response(op, HTTP_400_BAD_REQUEST,
                                  [pk |-> pk, data |-> data], ValidationErrors)
              /\ events' = events

\* update_event with partial=True passed to the serializer.
update_event_as_partial(pk, data) ==
    /\ resolver[<<Lit("events"), Lit("update"), IntSeg(pk)>>].view = "update_event"
    /\ EventUpdate("update_event", pk, data, TRUE)
    /\ UNCHANGED <<users, venues, bookings, payments, reviews, seq, session, inflight>>

update_event(pk, data) ==
    /\ resolver[<<Lit("events"), Lit("update"), IntSeg(pk)>>].view = "update_event"
    /\ EventUpdate("update_event", pk, data, FALSE)
    /\ UNCHANGED <<users, venues, bookings, payments, reviews, seq, session, inflight>>

partial_update_event(pk, data) ==
    /\ resolver[<<Lit("events"), Lit("partial"), IntSeg(pk)>>].view = "partial_update_event"
    /\ EventUpdate("partial_update_event", pk, data, TRUE)
    /\ UNCHANGED <<users, venues, bookings, payments, reviews, seq, session, inflight>>

\* Booking.event with on_delete=DO_NOTHING.
CascadeNoBookings(pk) == {}

\* The rows a delete of event pk collects: Booking.event, Payment.booking
\* and Review.booking are on_delete=CASCADE.
CascadeBookings(pk) == {b \in bookings : b.event = pk}

delete_event(pk) ==
    /\ resolver[<<Lit("events"), Lit("delete"), IntSeg(pk)>>].view = "delete_event"
    /\ IF pk \notin EventIds
       THEN /\ resp' = Response("delete_event", HTTP_404_NOT_FOUND, pk,
                                [error |-> "Event not found"])
            /\ UNCHANGED <<events, bookings, payments, reviews>>
       ELSE LET gone == {b.booking_id : b \in CascadeBookings(pk)}
            IN  /\ events' = events \ {EventById(pk)}
                /\ bookings' = {b \in bookings : b.booking_id \notin gone}
                /\ payments' = {p \in payments : p.booking \notin gone}
                /\ reviews' = {r \in reviews : r.booking \notin gone}
                /\ resp' = Response("delete_event", HTTP_204_NO_CONTENT, pk,
                                    [message |-> "Event deleted successfully"])
    /\ UNCHANGED <<users, venues, seq, session, inflight>>

(***************************************************************************)
(* Booking, BookingSerializer and the booking views.                       *)
(***************************************************************************)
BOOKING_STATUS_CHOICES == {"pending", "confirmed", "cancelled"}

BookingFields == {"customer", "event", "tickets_reserved", "status"}

BookingRequired == {"customer", "event", "tickets_reserved"}

BookingIds == {b.booking_id : b \in bookings}

BookingFieldValid(f, v) ==
    CASE f = "customer" -> v \in UserIds
      [] f = "event" -> v \in EventIds
      [] f = "tickets_reserved" -> v >= 0
      [] f = "status" -> v \in BOOKING_STATUS_CHOICES

\* UniqueTogetherValidator(customer, event), as the serializer sees the
\* table when is_valid() runs.
BookingUniqueTogether(data) ==
    ~ \E b \in bookings : b.customer = data.customer /\ b.event = data.event

\* BookingSerializer without the validator unique_together adds.
BookingSerializer_is_valid_without_unique(data) ==
    /\ \A f \in DOMAIN data \cap BookingFields : BookingFieldValid(f, data[f])
    /\ BookingRequired \subseteq DOMAIN data

\* BookingSerializer.is_valid().
BookingSerializer_is_valid(data) ==
    /\ \A f \in DOMAIN data \cap BookingFields : BookingFieldValid(f, data[f])
    /\ BookingRequired \subseteq DOMAIN data
    /\ BookingUniqueTogether(data)

NewBooking(id, data) ==
    Updated([booking_id |-> id, customer |-> Null, event |-> Null,
             tickets_reserved |-> 0, status |-> "pending"], data, BookingFields)

\* What the database checks when the INSERT runs: the unique index on
\* (customer_id, event_id) and the two foreign keys.
BookingInsertAllowed(row) ==
    /\ ~ \E b \in bookings : b.customer = row.customer /\ b.event = row.event
    /\ row.customer \in UserIds
    /\ row.event \in EventIds

\* serializer.save() and the response that follows it; an IntegrityError
\* is not caught by the view.
BookingSave(data) ==
    LET row == NewBooking(seq.booking, data)
    IN  /\ seq' = [seq EXCEPT !.booking = @ + 1]
        /\ IF BookingInsertAllowed(row)
           THEN /\ bookings' = bookings \cup {row}
                /\ resp' = Response("create_booking", HTTP_201_CREATED, data, row)
           ELSE /\ bookings' = bookings
                /\ resp' = Response("create_booking",
                                    HTTP_500_INTERNAL_SERVER_ERROR, data,
                                    "IntegrityError")

create_booking(data) ==
    /\ resolver[<<Lit("bookings"), Lit("create")>>].view = "create_booking"
    /\ BookingSerializer_is_valid(data) => seq.booking <= MaxBookings
    /\ IF BookingSerializer_is_valid(data)
       THEN BookingSave(data)
       ELSE /\ resp' = Response("create_booking", HTTP_400_BAD_REQUEST, data,
                                ValidationErrors)
            /\ UNCHANGED <<bookings, seq>>
    /\ UNCHANGED <<users, venues, events, payments, reviews, session, inflight>>

\* create_booking served by worker w while other requests are served: the
\* step up to and including serializer.is_valid() ...
create_booking_is_valid(w, data) ==
    /\ inflight[w].pc \in {"idle", "done"}
    /\ BookingSerializer_is_valid(data)
         => seq.booking + Cardinality({v \in DOMAIN inflight :
                                         inflight[v].pc = "validated"}) <= MaxBookings
    /\ IF BookingSerializer_is_valid(data)
       THEN /\ inflight' = [inflight EXCEPT ![w] = [pc |-> "validated", data |-> data]]
            /\ resp' = resp
       ELSE /\ inflight' = [inflight EXCEPT ![w] =
                              [pc |-> "done", data |-> data,
                               status |-> HTTP_400_BAD_REQUEST]]
            /\ resp' = Response("create_booking", HTTP_400_BAD_REQUEST, data,
                                ValidationErrors)
    /\ UNCHANGED <<users, venues, events, bookings, payments, reviews, seq, session>>

\* ... and the step from serializer.save() to the response.
create_booking_save(w) ==
    /\ inflight[w].pc = "validated"
    /\ BookingSave(inflight[w].data)
    /\ inflight' = [inflight EXCEPT ![w] =
                      [pc |-> "done", data |-> inflight[w].data,
                       status |-> resp'.status]]
    /\ UNCHANGED <<users, venues, events, payments, reviews, session>>

\* The bookings the stored role of user lets the caller see.  params are
\* the query parameters of the request, which the view does not read.
BookingsOfClientRole(user, params) ==
    LET role == IF Has(params, "role") THEN params.role ELSE UserById(user).role
    IN  IF role = "admin" THEN bookings
        ELSE IF role = "organizer"
             THEN {b \in bookings : EventById(b.event).organizer = user}
             ELSE {b \in bookings : b.customer = user}

BookingsOf(user, params) ==
    IF UserById(user).role = "admin" THEN bookings
    ELSE IF UserById(user).role = "organizer"
         THEN {b \in bookings : EventById(b.event).organizer = user}
         ELSE {b \in bookings : b.customer = user}

\* Meta.ordering = ['-created_at']: booking ids are handed out in the
\* order of creation, so the newest booking has the largest id.
BookingList(S) ==
    CHOOSE list \in [1..Cardinality(S) -> S] :
        \A i, j \in DOMAIN list : i < j => list[i].booking_id > list[j].booking_id

get_all_bookings(params) ==
    /\ resolver[<<Lit("bookings")>>].view = "get_all_bookings"
    /\ LET user == request_user
       IN  IF user = Anonymous
           THEN \* AnonymousUser has no attribute 'role'
                resp' = Response("get_all_bookings",
                                 HTTP_500_INTERNAL_SERVER_ERROR, params,
                                 "AttributeError")
           ELSE resp' = Response("get_all_bookings", HTTP_200_OK, params,
                                 BookingList(BookingsOf(user, params)))
    /\ UNCHANGED <<users, venues, events, bookings, payments, reviews, seq,
                   session, inflight>>

(***************************************************************************)
(* Payment and Review rows, which only the admin site creates.             *)
(***************************************************************************)
PAYMENT_METHOD_CHOICES == {"credit_card", "debit_card", "paypal"}

PaymentAdmin_add(booking, customer, method) ==
    /\ booking \in BookingIds
    /\ customer \in UserIds
    /\ method \in PAYMENT_METHOD_CHOICES
    /\ ~ \E p \in payments : p.booking = booking
    /\ payments' = payments \cup
         {[payment_id |-> seq.payment, booking |-> booking, customer |-> customer,
           method |-> method, status |-> "pending", amount |-> 0]}
    /\ seq' = [seq EXCEPT !.payment = @ + 1]
    /\ UNCHANGED <<users, venues, events, bookings, reviews, session, inflight, resp>>

ReviewAdmin_add(booking, user, rating) ==
    /\ booking \in BookingIds
    /\ user \in UserIds
    /\ rating \in 1..5
    /\ ~ \E r \in reviews : r.booking = booking
    /\ reviews' = reviews \cup
         {[id |-> seq.review, booking |-> booking, user |-> user, rating |-> rating]}
    /\ seq' = [seq EXCEPT !.review = @ + 1]
    /\ UNCHANGED <<users, venues, events, bookings, payments, session, inflight, resp>>

(***************************************************************************)
(* Deletion of a user, which only the admin site offers.                   *)
(***************************************************************************)
\* Event.organizer with on_delete=DO_NOTHING.
CascadeNoEvents(id) == {}

\* Event.organizer is on_delete=CASCADE: the events a delete of user id
\* collects.
CascadeEvents(id) == {e \in events : e.organizer = id}

\* The admin site (UserAdmin): a staff member deletes a user.  The delete
\* collects the user's events, the bookings of the user and of those
\* events, and the payments and reviews of the user and of those bookings.
UserAdmin_delete(id) ==
    /\ id \in UserIds
    /\ LET goneEvents == {e.event_id : e \in CascadeEvents(id)}
           goneBookings == {b.booking_id : b \in
                              {x \in bookings : \/ x.customer = id
                                                \/ x.event \in goneEvents}}
       IN  /\ users' = users \ {UserById(id)}
           /\ events' = {e \in events : e.event_id \notin goneEvents}
           /\ bookings' = {b \in bookings : b.booking_id \notin goneBookings}
           /\ payments' = {p \in payments : /\ p.customer # id
                                            /\ p.booking \notin goneBookings}
           /\ reviews' = {r \in reviews : /\ r.user # id
                                          /\ r.booking \notin goneBookings}
    /\ UNCHANGED <<venues, seq, session, inflight, resp>>

(***************************************************************************)
(* The authentication specification: an empty database, then any           *)
(* sequence of registrations, logins, logouts and suspensions.             *)
(***************************************************************************)
Emails == {[local |-> "a", domain |-> "x.com"],
           [local |-> "a", domain |-> "X.com"],
           [local |-> "b", domain |-> "x.com"]}

Passwords == {"pw1", "pw2"}

RegisterBase == [name |-> "n", email |-> [local |-> "a", domain |-> "x.com"],
                 password |-> "pw1", role |-> "customer"]

RegisterBodies ==
    {[name |-> "n", email |-> e, password |-> p, role |-> r]
       : e \in Emails, p \in Passwords, r \in ROLE_CHOICES}
    \cup {[f \in DOMAIN RegisterBase \ {g} |-> RegisterBase[f]]
            : g \in DOMAIN RegisterBase}
    \cup {[RegisterBase EXCEPT !.role = "guest"],
          [RegisterBase EXCEPT !.email = [local |-> "a", domain |-> ""]]}

LoginBodies ==
    {[email |-> e, password |-> p] : e \in Emails, p \in Passwords}
    \cup {[email |-> [local |-> "a", domain |-> "x.com"]],
          [password |-> "pw1"],
          [email |-> [local |-> "a", domain |-> ""], password |-> "pw1"]}

EmptySeq == [user |-> 1, venue |-> 1, event |-> 1, booking |-> 1,
             payment |-> 1, review |-> 1]

IdleWorkers == [w \in 1..MaxWorkers |-> [pc |-> "idle"]]

InitAuth ==
    /\ users = {} /\ venues = {} /\ events = {} /\ bookings = {}
    /\ payments = {} /\ reviews = {}
    /\ seq = EmptySeq
    /\ session = Anonymous
    /\ inflight = IdleWorkers
    /\ resp = NoResponse

NextAuth ==
    \/ \E data \in RegisterBodies, salt \in Salts : register_view(data, salt)
    \/ \E data \in LoginBodies : login_view(data)
    \/ logout_view
    \/ \E id \in 1..MaxUsers, s \in USER_STATUS_CHOICES : UserAdmin_set_status(id, s)

SpecAuth == InitAuth /\ [][NextAuth]_vars

(***************************************************************************)
(* The booking specification: a database seeded by three registrations     *)
(* (an admin, an organizer, a customer) and two create_event requests,     *)
(* then any sequence of logins, logouts, booking requests, booking lists   *)
(* and event deletions.                                                    *)
(***************************************************************************)
SeedEmail(local) == [local |-> local, domain |-> "x.com"]

SeedUsers ==
    {create_user(1, SeedEmail("admin"), "Ada", "pw1", "admin", "s1"),
     create_user(2, SeedEmail("org"), "Bo", "pw1", "organizer", "s1"),
     create_user(3, SeedEmail("cust"), "Cy", "pw1", "customer", "s1")}

EventBase ==
    [title |-> "t1", description |-> "d1", organizer |-> 2,
     category |-> "music", start_date |-> 1, start_time |-> 1,
     end_date |-> 1, end_time |-> 2, capacity |-> 10]

SeedEvents ==
    {NewEvent(1, EventBase),
     NewEvent(2, [EventBase EXCEPT !.title = "t2", !.organizer = 1])}

SeedSeq == [user |-> 4, venue |-> 1, event |-> 3, booking |-> 1,
            payment |-> 1, review |-> 1]

SeedLoginBodies ==
    {[email |-> SeedEmail(l), password |-> "pw1"] : l \in {"admin", "org", "cust"}}
    \cup {[email |-> SeedEmail("cust"), password |-> "pw2"]}

BookingBase == [customer |-> 3, event |-> 1, tickets_reserved |-> 1]

BookingBodies ==
    {[customer |-> c, event |-> e, tickets_reserved |-> 1] : c \in 1..3, e \in 1..2}
    \cup {[f \in DOMAIN BookingBase \ {g} |-> BookingBase[f]] : g \in DOMAIN BookingBase}
    \cup {[BookingBase EXCEPT !.customer = 9],
          [BookingBase EXCEPT !.event = 9],
          [BookingBase EXCEPT !.tickets_reserved = -1],
          [BookingBase EXCEPT !.tickets_reserved = 0],
          [customer |-> 3, event |-> 1, tickets_reserved |-> 1, status |-> "confirmed"],
          [customer |-> 3, event |-> 1, tickets_reserved |-> 1, status |-> "paid"]}

\* Query parameters a client may add to GET /bookings/.
QueryParams == {<<>>} \cup {[role |-> r] : r \in ROLE_CHOICES}

Init ==
    /\ users = SeedUsers /\ venues = {} /\ events = SeedEvents
    /\ bookings = {} /\ payments = {} /\ reviews = {}
    /\ seq = SeedSeq
    /\ session = Anonymous
    /\ inflight = IdleWorkers
    /\ resp = NoResponse

Next ==
    \/ \E data \in SeedLoginBodies : login_view(data)
    \/ logout_view
    \/ \E data \in BookingBodies : create_booking(data)
    \/ \E params \in QueryParams : get_all_bookings(params)
    \/ \E pk \in 1..(MaxEvents + 1) : delete_event(pk)

Spec == Init /\ [][Next]_vars

(***************************************************************************)
(* The race specification: the seeded database, and create_booking         *)
(* requests served by several workers, each request a validation step and  *)
(* a save step that other requests' steps may come between.                *)
(***************************************************************************)
RaceBodies ==
    {[customer |-> c, event |-> e, tickets_reserved |-> 1] : c \in 2..3, e \in 1..2}
    \cup {[BookingBase EXCEPT !.event = 9]}

NextRace ==
    \/ \E w \in 1..MaxWorkers, data \in RaceBodies : create_booking_is_valid(w, data)
    \/ \E w \in 1..MaxWorkers : create_booking_save(w)

SpecRace == Init /\ [][NextRace]_vars

(***************************************************************************)
(* Claims about bookings.                                                  *)
(***************************************************************************)
\* The elements of a sequence.
Range(list) == {list[i] : i \in DOMAIN list}

\* A step in which the view op answered (a repeated request that gets the
\* same answer in the same state changes nothing and is no step).
Answered(op) == resp' # resp /\ resp'.op = op

\* What the role-scoped list is to show the stored user with this id.
VisibleTo(id) ==
    LET user == UserById(id)
    IN  CASE user.role = "admin" -> bookings
          [] user.role = "organizer" ->
               {b \in bookings : \E e \in events : e.event_id = b.event /\ e.organizer = id}
          [] OTHER -> {b \in bookings : b.customer = id}

\* C1: for an authenticated caller, get_all_bookings answers 200 with each
\* booking the stored role makes visible exactly once -- all of them for an
\* admin, those of the caller's events for an organizer, the caller's own
\* otherwise -- whatever query parameters the request carries, and changes
\* nothing stored.
C1_RoleScopedList ==
    [][(Answered("get_all_bookings") /\ session \in UserIds)
       => /\ resp'.status = HTTP_200_OK
          /\ Range(resp'.data) = VisibleTo(session)
          /\ Len(resp'.data) = Cardinality(VisibleTo(session))
          /\ db' = db /\ session' = session]_vars

\* An organizer who sent role=admin was shown one of two stored bookings.
C1_Witness ==
    /\ resp.op = "get_all_bookings" /\ resp.status = HTTP_200_OK
    /\ session \in UserIds /\ UserById(session).role = "organizer"
    /\ Has(resp.req, "role") /\ resp.req.role = "admin"
    /\ Cardinality(bookings) = 2
    /\ Len(resp.data) = 1 /\ Range(resp.data) = VisibleTo(session)

UniqueCustomerEvent ==
    \A a, b \in bookings :
        (a.customer = b.customer /\ a.event = b.event) => a = b

\* C2: no two stored bookings ever have the same (customer, event), and a
\* create_booking request for a pair that has a booking is answered 400 and
\* stores nothing.
C2_OneBookingPerCustomerEvent ==
    /\ []UniqueCustomerEvent
    /\ [][(/\ Answered("create_booking")
           /\ Has(resp'.req, "customer") /\ Has(resp'.req, "event")
           /\ \E b \in bookings : /\ b.customer = resp'.req.customer
                                  /\ b.event = resp'.req.event)
          => (resp'.status = HTTP_400_BAD_REQUEST /\ bookings' = bookings)]_vars

\* A second request for a booked pair was refused after an event with a
\* booking had been deleted.
C2_Witness ==
    /\ resp.op = "create_booking" /\ resp.status = HTTP_400_BAD_REQUEST
    /\ resp.req \in {[customer |-> c, event |-> e, tickets_reserved |-> 1]
                       : c \in 1..3, e \in 1..2}
    /\ \E b \in bookings : b.customer = resp.req.customer /\ b.event = resp.req.event
    /\ Cardinality(events) = 1 /\ seq.booking = 3

\* C3 (as claimed): when two workers have answered create_booking requests
\* for the same (customer, event) and one of them stored the booking, the
\* pair is stored once and the other request was answered 400.
C3_RaceLoserAnswered400 ==
    \A w, v \in DOMAIN inflight :
        (/\ w # v
         /\ inflight[w].pc = "done" /\ inflight[v].pc = "done"
         /\ inflight[w].status = HTTP_201_CREATED
         /\ inflight[v].status # HTTP_201_CREATED
         /\ Has(inflight[v].data, "customer")
         /\ inflight[v].data.customer = inflight[w].data.customer
         /\ inflight[v].data.event = inflight[w].data.event)
        => /\ inflight[v].status = HTTP_400_BAD_REQUEST
           /\ Cardinality({b \in bookings :
                             /\ b.customer = inflight[w].data.customer
                             /\ b.event = inflight[w].data.event}) = 1

\* C6 (as claimed): every GET /bookings/ is answered 200, and a caller
\* without a session gets the bookings whose customer is the caller.
C6_BookingListNeverFails ==
    [][Answered("get_all_bookings")
       => /\ resp'.status = HTTP_200_OK
          /\ session \notin UserIds
               => Range(resp'.data) = {b \in bookings : b.customer = Anonymous}]_vars

\* C13 (as claimed): a booking's status is pending when the booking is
\* created, changes only from pending to confirmed or to cancelled, and
\* never changes once it is confirmed or cancelled.
C13_BookingStatusMachine ==
    [][\A b \in bookings' :
         IF b.booking_id \notin BookingIds
         THEN b.status = "pending"
         ELSE LET old == CHOOSE x \in bookings : x.booking_id = b.booking_id
              IN  \/ b.status = old.status
                  \/ /\ old.status = "pending"
                     /\ b.status \in {"confirmed", "cancelled"}]_vars

\* C17 (as claimed): every stored booking has tickets_reserved >= 1, and a
\* create_booking request with tickets_reserved = 0 is answered 400 and
\* stores nothing.
C17_TicketsReservedAtLeastOne ==
    /\ [](\A b \in bookings : b.tickets_reserved >= 1)
    /\ [][(/\ Answered("create_booking")
           /\ Has(resp'.req, "tickets_reserved")
           /\ resp'.req.tickets_reserved = 0)
          => (resp'.status = HTTP_400_BAD_REQUEST /\ bookings' = bookings)]_vars

(***************************************************************************)
(* The cascade specification: the three seeded users and no other row,     *)
(* then venues, events, bookings, payments and reviews are created and     *)
(* events and venues deleted.                                              *)
(***************************************************************************)
VenueBase == [name |-> "pc", address |-> "Mall Road", capacity |-> 5]

CascadeVenueBodies == {VenueBase, [VenueBase EXCEPT !.capacity = -1]}

WithVenue(body, v) ==
    [f \in DOMAIN body \cup {"venue"} |-> IF f = "venue" THEN v ELSE body[f]]

CascadeEventBodies ==
    {EventBase, WithVenue([EventBase EXCEPT !.title = "t2"], 1)}
    \cup {WithVenue(EventBase, v) : v \in 1..MaxVenues}

CascadeBookingBodies ==
    {[customer |-> 3, event |-> e, tickets_reserved |-> 1] : e \in 1..MaxEvents}

InitCascade ==
    /\ users = SeedUsers /\ venues = {} /\ events = {}
    /\ bookings = {} /\ payments = {} /\ reviews = {}
    /\ seq = [SeedSeq EXCEPT !.event = 1]
    /\ session = Anonymous
    /\ inflight = IdleWorkers
    /\ resp = NoResponse

NextCascade ==
    \/ \E data \in CascadeVenueBodies : create_venue(data)
    \/ \E data \in CascadeEventBodies : create_event(data)
    \/ \E data \in CascadeBookingBodies : create_booking(data)
    \/ \E b \in 1..MaxBookings : PaymentAdmin_add(b, 3, "paypal")
    \/ \E b \in 1..MaxBookings : ReviewAdmin_add(b, 3, 5)
    \/ \E pk \in EventIds : delete_event(pk)
    \/ \E pk \in 1..MaxVenues : delete_venue(pk)

SpecCascade == InitCascade /\ [][NextCascade]_vars

(***************************************************************************)
(* The event specification: the three seeded users and no event, then any  *)
(* sequence of event creations, full and partial updates, deletions and    *)
(* GET requests on events/ and events/<id>/.                               *)
(***************************************************************************)
Without(body, g) == [f \in DOMAIN body \ {g} |-> body[f]]

EventBodies ==
    {[EventBase EXCEPT !.title = t, !.start_date = d] : t \in {"t1", "t2"}, d \in 1..2}
    \cup {[EventBase EXCEPT !.description = "d2"]}
    \cup {Without(EventBase, g) : g \in DOMAIN EventBase}
    \cup {Without([EventBase EXCEPT !.title = "t2"], "description")}
    \cup {[title |-> "t2"], [start_date |-> 2], [description |-> "d2"]}
    \cup {[EventBase EXCEPT !.capacity = -1],
          [EventBase EXCEPT !.category = "party"],
          [EventBase EXCEPT !.organizer = 9]}

EventPaths ==
    {<<Lit("events")>>} \cup {<<Lit("events"), IntSeg(pk)>> : pk \in 1..(MaxEvents + 1)}

NextEvents ==
    \/ \E data \in EventBodies : create_event(data)
    \/ \E pk \in 1..(MaxEvents + 1), data \in EventBodies : update_event(pk, data)
    \/ \E pk \in 1..(MaxEvents + 1), data \in EventBodies : partial_update_event(pk, data)
    \/ \E pk \in 1..(MaxEvents + 1) : delete_event(pk)
    \/ \E path \in EventPaths : get_request(path)

SpecEvents == InitCascade /\ [][NextEvents]_vars

(***************************************************************************)
(* The list specification: the three seeded users and no event, then       *)
(* events that differ in title, start_date and start_time are created,     *)
(* moved, deleted and listed.                                              *)
(***************************************************************************)
ListBodies ==
    {[EventBase EXCEPT !.title = t, !.start_date = d, !.start_time = tm]
       : t \in {"t1", "t2", "t3"}, d \in 1..2, tm \in 1..2}

ListPatches == {[start_date |-> d] : d \in 1..2} \cup {[start_time |-> tm] : tm \in 1..2}

NextList ==
    \/ \E data \in ListBodies : create_event(data)
    \/ \E pk \in 1..MaxEvents, data \in ListPatches : partial_update_event(pk, data)
    \/ \E pk \in 1..MaxEvents : delete_event(pk)
    \/ get_request(<<Lit("events")>>)

SpecList == InitCascade /\ [][NextList]_vars

\* C14: get_events answers 200 with every stored event exactly once, in
\* descending order of start_date and, among events of one start_date, in
\* descending order of start_time.
C14_EventListOrdered ==
    [][(Answered("get_events") /\ resp'.req = {})
       => LET list == resp'.data
          IN  /\ resp'.status = HTTP_200_OK
              /\ Len(list) = Cardinality(events)
              /\ Range(list) = events
              /\ \A i, j \in DOMAIN list :
                    i < j => \/ list[i].start_date > list[j].start_date
                             \/ /\ list[i].start_date = list[j].start_date
                                /\ list[i].start_time >= list[j].start_time]_vars

\* Two events of one start_date were listed, the later start_time first,
\* against the order of their ids.
C14_Witness ==
    /\ resp.op = "get_events" /\ resp.status = HTTP_200_OK
    /\ Len(resp.data) = 2 /\ Range(resp.data) = events
    /\ resp.data[1].start_date = resp.data[2].start_date
    /\ resp.data[1].start_time > resp.data[2].start_time
    /\ resp.data[1].event_id > resp.data[2].event_id

(***************************************************************************)
(* The full-update specification: the three seeded users, then a venue     *)
(* and events are created and events are updated with PUT bodies that      *)
(* leave out one field or several.                                         *)
(***************************************************************************)
FullEvent ==
    [title |-> "t1", description |-> "d1", organizer |-> 2,
     category |-> "music", venue |-> 1, start_date |-> 1, start_time |-> 1,
     end_date |-> 1, end_time |-> 2,
     ticket_price |-> [whole |-> 5, cents |-> 50], capacity |-> 10,
     status |-> "ongoing"]

PutBodies ==
    {FullEvent, EventBase, [FullEvent EXCEPT !.title = "t2"],
     [FullEvent EXCEPT !.status = "done"]}
    \cup {Without(FullEvent, g) : g \in {"status", "ticket_price", "venue",
                                          "title", "capacity"}}

NextPut ==
    \/ create_venue(VenueBase)
    \/ \E data \in {FullEvent, EventBase, [EventBase EXCEPT !.title = "t2"]} :
          create_event(data)
    \/ \E pk \in 1..(MaxEvents + 1), data \in PutBodies : update_event(pk, data)
    \/ \E pk \in 1..MaxEvents : partial_update_event(pk, [status |-> "cancelled"])
    \/ \E pk \in 1..MaxVenues : delete_venue(pk)

SpecPut == InitCascade /\ [][NextPut]_vars

(***************************************************************************)
(* The integrity specification: the three seeded users, then venues,       *)
(* events, bookings, payments and reviews are created, events are moved    *)
(* to other organizers and venues, and users, events and venues are        *)
(* deleted, while a booking request is between validation and save.         *)
(***************************************************************************)
IntegrityEventBodies ==
    {EventBase, WithVenue([EventBase EXCEPT !.title = "t2", !.organizer = 3], 1)}

IntegrityPatches == {[venue |-> 1], [organizer |-> 3], [organizer |-> 9]}

IntegrityBookingBodies ==
    {[customer |-> c, event |-> 1, tickets_reserved |-> 1] : c \in 2..3}

NextIntegrity ==
    \/ create_venue(VenueBase)
    \/ \E data \in IntegrityEventBodies : create_event(data)
    \/ \E pk \in 1..MaxEvents, data \in IntegrityPatches :
          partial_update_event(pk, data)
    \/ \E data \in IntegrityBookingBodies : create_booking_is_valid(1, data)
    \/ create_booking_save(1)
    \/ \E b \in 1..MaxBookings : PaymentAdmin_add(b, 3, "paypal")
    \/ \E b \in 1..MaxBookings : ReviewAdmin_add(b, 3, 5)
    \/ \E pk \in 1..MaxEvents : delete_event(pk)
    \/ \E pk \in 1..MaxVenues : delete_venue(pk)
    \/ \E id \in 2..3 : UserAdmin_delete(id)

SpecIntegrity == InitCascade /\ [][NextIntegrity]_vars

\* C20: in every reachable state every booking's customer and event are
\* stored, every event's organizer is stored, every event's venue is null
\* or stored, and every payment's and review's booking and user are stored.
C20_ReferentialIntegrity ==
    /\ \A b \in bookings : b.customer \in UserIds /\ b.event \in EventIds
    /\ \A e \in events : /\ e.organizer \in UserIds
                         /\ e.venue = Null \/ e.venue \in VenueIds
    /\ \A q \in payments : q.booking \in BookingIds /\ q.customer \in UserIds
    /\ \A r \in reviews : r.booking \in BookingIds /\ r.user \in UserIds

\* The organizer of an event with a paid and reviewed booking was deleted:
\* the event, its booking, the payment and the review went with the user,
\* and another event is still stored.
C20_Witness ==
    /\ 2 \notin UserIds
    /\ seq.event = 3 /\ seq.booking = 2 /\ seq.payment = 2 /\ seq.review = 2
    /\ Cardinality(events) = 1
    /\ bookings = {} /\ payments = {} /\ reviews = {}

(***************************************************************************)
(* Claims about deletions.                                                 *)
(***************************************************************************)
\* C7: when delete_event answers 204 for event e, afterwards e is gone, no
\* booking refers to e, no payment or review refers to a booking that
\* referred to e, and every other booking, payment, review and event and
\* every user and venue is as it was.
C7_DeleteEventCascades ==
    [][(Answered("delete_event") /\ resp'.status = HTTP_204_NO_CONTENT)
       => LET e == resp'.req
              gone == {b.booking_id : b \in {x \in bookings : x.event = e}}
          IN  /\ e \in EventIds
              /\ events' = {x \in events : x.event_id # e}
              /\ ~ \E b \in bookings' : b.event = e
              /\ ~ \E q \in payments' : q.booking \in gone
              /\ ~ \E r \in reviews' : r.booking \in gone
              /\ bookings' = {b \in bookings : b.event # e}
              /\ payments' = {q \in payments : q.booking \notin gone}
              /\ reviews' = {r \in reviews : r.booking \notin gone}
              /\ users' = users /\ venues' = venues]_vars

\* Of two bookings, each with a payment and a review, the delete of one
\* event took one and left the other, with a venue in place.
C7_Witness ==
    /\ resp.op = "delete_event" /\ resp.status = HTTP_204_NO_CONTENT
    /\ seq.booking = 3 /\ seq.payment = 3 /\ seq.review = 3
    /\ Cardinality(bookings) = 1 /\ Cardinality(payments) = 1
    /\ Cardinality(reviews) = 1
    /\ Cardinality(events) = 1 /\ venues # {}
    /\ \A b \in bookings : b.event # resp.req

\* C8: when delete_venue answers 204 for venue v, afterwards v is gone,
\* every event is still there -- with venue null if it referred to v, and
\* otherwise as it was -- and no booking, payment, review, user or other
\* venue has changed.
C8_DeleteVenueSetsNull ==
    [][(Answered("delete_venue") /\ resp'.status = HTTP_204_NO_CONTENT)
       => LET v == resp'.req
          IN  /\ v \in VenueIds
              /\ venues' = {x \in venues : x.venue_id # v}
              /\ \A e \in events :
                    (IF e.venue = v THEN [e EXCEPT !.venue = Null] ELSE e) \in events'
              /\ {e.event_id : e \in events'} = EventIds
              /\ Cardinality(events') = Cardinality(events)
              /\ bookings' = bookings /\ payments' = payments
              /\ reviews' = reviews /\ users' = users]_vars

\* Venue 1 was deleted: the event created at venue 1 is there with venue
\* null, an event at venue 2 kept its venue, and a booking is in place.
C8_Witness ==
    /\ resp.op = "delete_venue" /\ resp.status = HTTP_204_NO_CONTENT
    /\ resp.req = 1
    /\ \E e \in events : e.title = "t2" /\ e.venue = Null
    /\ \E e \in events : e.venue = 2
    /\ bookings # {}

(***************************************************************************)
(* Claims about the event views.                                           *)
(***************************************************************************)
\* The fields a body sends are valid for event pk and leave (title,
\* start_date) unlike every other event's.
BodyAcceptable(pk, data) ==
    /\ \A f \in DOMAIN data : f \in EventFields /\ EventFieldValid(f, data[f])
    /\ LET e == EventById(pk)
           t == IF Has(data, "title") THEN data.title ELSE e.title
           d == IF Has(data, "start_date") THEN data.start_date ELSE e.start_date
       IN  \A x \in events : (x.title = t /\ x.start_date = d) => x.event_id = pk

\* C9: for an existing event and a body that omits a required field,
\* update_event (PUT) answers 400 and changes no event; and if what the
\* body does send is acceptable, partial_update_event (PATCH) answers 200,
\* gives the event the body's value in every field sent, keeps every field
\* not sent, and changes no other event.
C9_PutRequiresPatchKeeps ==
    [][/\ (/\ Answered("update_event")
           /\ resp'.req.pk \in EventIds
           /\ ~ (EventRequired \subseteq DOMAIN resp'.req.data))
          => (resp'.status = HTTP_400_BAD_REQUEST /\ events' = events)
       /\ (/\ Answered("partial_update_event")
           /\ resp'.req.pk \in EventIds
           /\ ~ (EventRequired \subseteq DOMAIN resp'.req.data)
           /\ BodyAcceptable(resp'.req.pk, resp'.req.data))
          => LET pk == resp'.req.pk
                 data == resp'.req.data
                 old == EventById(pk)
             IN  /\ resp'.status = HTTP_200_OK
                 /\ \E new \in events' :
                      /\ new.event_id = pk
                      /\ \A f \in EventFields :
                           new[f] = IF Has(data, f) THEN data[f] ELSE old[f]
                      /\ events' = (events \ {old}) \cup {new}
                      /\ resp'.data = new]_vars

\* A PATCH that sent title "t2" and no description changed the title of an
\* event whose description is "d2" and kept the description.
C9_Witness ==
    /\ resp.op = "partial_update_event" /\ resp.status = HTTP_200_OK
    /\ resp.req.data = Without([EventBase EXCEPT !.title = "t2"], "description")
    /\ \E e \in events : /\ e.event_id = resp.req.pk
                         /\ e.title = "t2" /\ e.description = "d2"
    /\ Cardinality(events) = 2

\* C10 (as claimed): GET /events/{id}/ answers 200 with the event whose id
\* is {id} when it is stored, and 404 when it is not.
C10_GetEventById ==
    [][\A id \in 1..(MaxEvents + 1) :
         (resp' # resp /\ resp'.op \in {"get_events", "get_event"}
            /\ resp'.req = {<<"pk", id>>})
         => IF id \in EventIds
            THEN resp'.status = HTTP_200_OK /\ resp'.data = EventById(id)
            ELSE resp'.status = HTTP_404_NOT_FOUND]_vars

\* C11: update_event, partial_update_event and delete_event called with an
\* id no stored event has answer 404, whatever the body, and leave every
\* stored user, venue, event and booking as it was.
C11_MissingEventAnswered404 ==
    [][/\ \A op \in {"update_event", "partial_update_event"} :
            (Answered(op) /\ resp'.req.pk \notin EventIds)
            => /\ resp'.status = HTTP_404_NOT_FOUND
               /\ users' = users /\ venues' = venues
               /\ events' = events /\ bookings' = bookings
       /\ (Answered("delete_event") /\ resp'.req \notin EventIds)
            => /\ resp'.status = HTTP_404_NOT_FOUND
               /\ users' = users /\ venues' = venues
               /\ events' = events /\ bookings' = bookings]_vars

\* A PUT with an invalid body for an id that is not stored was answered
\* 404 while another event was stored.
C11_Witness ==
    /\ resp.op = "update_event" /\ resp.status = HTTP_404_NOT_FOUND
    /\ resp.req.data = [EventBase EXCEPT !.capacity = -1]
    /\ events # {} /\ resp.req.pk \notin EventIds

UniqueTitleStartDate ==
    \A a, b \in events :
        (a.title = b.title /\ a.start_date = b.start_date) => a = b

\* The event other than pk that has the (title, start_date) pair event pk
\* would get from this body.
PairTaken(pk, data) ==
    LET old == EventById(pk)
        t == IF Has(data, "title") THEN data.title ELSE old.title
        d == IF Has(data, "start_date") THEN data.start_date ELSE old.start_date
    IN  \E e \in events : e.event_id # pk /\ e.title = t /\ e.start_date = d

\* C12: no two stored events ever have the same (title, start_date); a
\* create_event whose pair a stored event has, and an update_event or
\* partial_update_event (also one that sends only title or only start_date)
\* that would give the event the pair of another one, is answered 400 and
\* changes no event.
C12_UniqueTitleStartDate ==
    /\ []UniqueTitleStartDate
    /\ [][/\ (/\ Answered("create_event")
               /\ Has(resp'.req, "title") /\ Has(resp'.req, "start_date")
               /\ \E e \in events : /\ e.title = resp'.req.title
                                      /\ e.start_date = resp'.req.start_date)
              => (resp'.status = HTTP_400_BAD_REQUEST /\ events' = events)
           /\ \A op \in {"update_event", "partial_update_event"} :
                (/\ Answered(op)
                 /\ resp'.req.pk \in EventIds
                 /\ PairTaken(resp'.req.pk, resp'.req.data))
                => (resp'.status = HTTP_400_BAD_REQUEST /\ events' = events)]_vars

\* A PATCH that sent only a title, the one another event has on the same
\* start_date, was answered 400.
C12_Witness ==
    /\ resp.op = "partial_update_event" /\ resp.status = HTTP_400_BAD_REQUEST
    /\ resp.req.data = [title |-> "t2"]
    /\ resp.req.pk \in EventIds
    /\ EventById(resp.req.pk).title = "t1"
    /\ PairTaken(resp.req.pk, resp.req.data)

\* The writable fields with a model default or null=True.
OptionalEventFields == {"venue", "ticket_price", "status"}

NoTwoUsersShareEmail ==
    \A u, v \in users : u.email = v.email => u = v

\* C4 (as claimed): when a registration has succeeded and the next register
\* request submits the same email, that request is answered 400 and creates
\* no user; and no two stored users ever share an email.
C4_SecondRegistrationAnswered400 ==
    /\ []NoTwoUsersShareEmail
    /\ [][(/\ resp.op = "register" /\ resp.status = HTTP_201_CREATED
           /\ resp'.op = "register" /\ resp' # resp
           /\ Has(resp'.req, "email")
           /\ resp'.req.email = resp.req.email)
          => (resp'.status = HTTP_400_BAD_REQUEST /\ users' = users)]_vars

\* The stored user whose email and password are the ones submitted.
CorrectCredentials(data) ==
    \E u \in users : /\ u.email = data.email
                     /\ u.password = make_password(data.password, u.password.salt)

CredentialUser(data) == CHOOSE u \in users : u.email = data.email

InvalidMessage == [non_field_errors |-> <<"Invalid email or password">>]

SuspendedMessage == [non_field_errors |-> <<"Your account is suspended">>]

\* C5: a login with a well-formed but unknown email, or with a wrong
\* password, is answered 400 with "Invalid email or password"; a login with
\* the correct credentials of a suspended user is answered 400 with the
\* suspension message; no failing login changes the session; and the
\* session comes to hold a user only by a login answered 200 with that
\* user's correct credentials while the user's status is active.
C5_LoginOutcomes ==
    [][/\ (/\ resp' # resp /\ resp'.op = "login"
           /\ Has(resp'.req, "email") /\ Has(resp'.req, "password")
           /\ IsEmail(resp'.req.email))
          => LET data == resp'.req
             IN  /\ ~ CorrectCredentials(data)
                      => /\ resp'.status = HTTP_400_BAD_REQUEST
                         /\ resp'.data = InvalidMessage
                         /\ session' = session
                 /\ (CorrectCredentials(data)
                       /\ CredentialUser(data).status = "suspended")
                      => /\ resp'.status = HTTP_400_BAD_REQUEST
                         /\ resp'.data = SuspendedMessage
                         /\ resp'.data # InvalidMessage
                         /\ session' = session
       /\ (resp' # resp /\ resp'.op = "login" /\ resp'.status # HTTP_200_OK)
          => session' = session
       /\ (session' # session /\ session' # Anonymous)
          => /\ resp'.op = "login" /\ resp'.status = HTTP_200_OK
             /\ CorrectCredentials(resp'.req)
             /\ CredentialUser(resp'.req).status = "active"
             /\ session' = CredentialUser(resp'.req).user_id
      ]_vars

\* A suspended user's correct login was refused while another user's
\* session stayed in place.
C5_Witness ==
    /\ resp.op = "login" /\ resp.status = HTTP_400_BAD_REQUEST
    /\ resp.data = SuspendedMessage
    /\ CorrectCredentials(resp.req)
    /\ session # Anonymous /\ session # CredentialUser(resp.req).user_id

\* C15: a response register_view or login_view builds -- 201, 200 or 400 --
\* holds neither the submitted password nor a stored hash: the success body
\* is a message and a user object of exactly id, name, email and role, and
\* the messages of a failure do not quote the password.
C15_NoCredentialInAuthResponse ==
    [][(resp' # resp /\ resp'.op \in {"register", "login"}
          /\ resp'.status # HTTP_500_INTERNAL_SERVER_ERROR)
       => LET body == resp'.data
              sent == Has(resp'.req, "password")
          IN  IF resp'.status \in {HTTP_200_OK, HTTP_201_CREATED}
              THEN /\ DOMAIN body = {"message", "user"}
                   /\ DOMAIN body.user = {"id", "name", "email", "role"}
                   /\ \E u \in users' :
                         body.user = [id |-> u.user_id, name |-> u.name,
                                      email |-> u.email, role |-> u.role]
                   /\ sent => resp'.req.password \notin Range(body.message)
              ELSE /\ resp'.status = HTTP_400_BAD_REQUEST
                   /\ \A f \in DOMAIN body :
                         sent => resp'.req.password \notin Range(body[f])]_vars

\* The second user registered with password "pw2" and got the user object
\* back.
C15_Witness ==
    /\ resp.op = "register" /\ resp.status = HTTP_201_CREATED
    /\ resp.req.password = "pw2"
    /\ resp.data.user.id = 2
    /\ \E u \in users : u.user_id = 2 /\ u.password = make_password("pw2", "s1")

\* C16: logout_view can always be called and, with a session or without,
\* answers 200 and leaves the session without a user and the database as
\* it was; called again right after a logout, it leaves every variable as
\* the first call left it.
C16_LogoutIdempotent ==
    /\ [][Answered("logout")
          => /\ resp'.status = HTTP_200_OK
             /\ session' = Anonymous
             /\ db' = db]_vars
    /\ [](ENABLED logout_view)
    /\ [](resp.op = "logout"
           => /\ resp.status = HTTP_200_OK /\ session = Anonymous
              /\ ENABLED (logout_view /\ UNCHANGED vars))

\* A logout was answered with two users registered and no session left.
C16_Witness ==
    /\ resp.op = "logout" /\ resp.status = HTTP_200_OK
    /\ session = Anonymous
    /\ Cardinality(users) = 2

\* C19 (as claimed): a register request whose email is, but for the case of
\* its domain part, the email of a stored user is answered 400 and creates
\* no user.
C19_DomainCaseAnswered400 ==
    [][(/\ Answered("register")
        /\ Has(resp'.req, "email") /\ IsEmail(resp'.req.email)
        /\ \E u \in users : /\ u.email.local = resp'.req.email.local
                             /\ u.email.domain = lower(resp'.req.email.domain)
                             /\ u.email # resp'.req.email)
       => (resp'.status = HTTP_400_BAD_REQUEST /\ users' = users)]_vars

(***************************************************************************)
(* The write specification: an empty database, then users are registered   *)
(* and venues, events and bookings are created and updated, with bodies    *)
(* that are valid, incomplete, invalid in one field or in conflict with a  *)
(* stored row.  Every step of it is a request.                             *)
(***************************************************************************)
WriteRegisterBodies ==
    {RegisterBase, [RegisterBase EXCEPT !.role = "guest"],
     Without(RegisterBase, "password")}

WriteVenueBodies == {VenueBase, [VenueBase EXCEPT !.capacity = -1]}

WriteVenuePatches ==
    {[capacity |-> 7], [capacity |-> 7, name |-> "club"], [address |-> ""]}

WriteEventBase == [EventBase EXCEPT !.organizer = 1]

WriteEventBodies ==
    {WriteEventBase, [WriteEventBase EXCEPT !.title = "t2"],
     [WriteEventBase EXCEPT !.title = "t2", !.capacity = -1],
     Without(WriteEventBase, "category")}

WriteEventPatches ==
    {[title |-> "t2"], [description |-> "d2", capacity |-> -1]}

WriteBookingBodies ==
    {[customer |-> 1, event |-> e, tickets_reserved |-> n] : e \in 1..2, n \in {-1, 1}}

NextWrite ==
    \/ \E data \in WriteRegisterBodies, salt \in Salts : register_view(data, salt)
    \/ \E data \in WriteVenueBodies : create_venue(data)
    \/ \E pk \in 1..MaxVenues, data \in WriteVenuePatches :
          partial_update_venue(pk, data)
    \/ \E data \in WriteEventBodies : create_event(data)
    \/ \E pk \in 1..MaxEvents, data \in WriteEventBodies : update_event(pk, data)
    \/ \E pk \in 1..MaxEvents, data \in WriteEventPatches :
          partial_update_event(pk, data)
    \/ \E data \in WriteBookingBodies : create_booking(data)

SpecWrite == InitAuth /\ [][NextWrite]_vars

\* C21: a request that register_view, create_event, update_event,
\* partial_update_event, create_venue, partial_update_venue or
\* create_booking answers with 400 leaves the stored users, venues, events
\* and bookings exactly as they were before it.
C21_Answer400WritesNothing ==
    [][(/\ resp'.op \in {"register", "create_event", "update_event",
                         "partial_update_event", "create_venue",
                         "partial_update_venue", "create_booking"}
        /\ resp'.status = HTTP_400_BAD_REQUEST)
       => /\ users' = users /\ venues' = venues
          /\ events' = events /\ bookings' = bookings]_vars

\* A PATCH of a venue with a valid capacity and an invalid name was
\* answered 400 and the venue has the capacity it was created with, while
\* a user, two events and a booking are stored.
C21_Witness ==
    /\ resp.op = "partial_update_venue" /\ resp.status = HTTP_400_BAD_REQUEST
    /\ resp.req = [capacity |-> 7, name |-> "club"]
    /\ \A v \in venues : v.capacity = VenueBase.capacity
    /\ venues # {} /\ users # {}
    /\ Cardinality(events) = 2 /\ bookings # {}

====
